---- MODULE Spec2Model ----
(***************************************************************************)
(* HeatmapStats (frontend/src/toolbar/stats/HeatmapStats.tsx): the toolbar *)
(* panel that lists the counted elements of the heatmap.  The component    *)
(* reads four values of heatmapLogic, renders a tree from them and wires   *)
(* three pointer-event handlers per row to two actions of elementsLogic.   *)
(*                                                                         *)
(* Optional values (a field that may be undefined) are sequences of length *)
(* 0 or 1: <<>> is undefined, <<v>> is the value v.                        *)
(***************************************************************************)
EXTENDS Integers, Sequences, FiniteSets, TLC

VARIABLES
    heatmapEnabled,     \* heatmapLogic value
    heatmapLoading,     \* heatmapLogic value
    countedElements,    \* heatmapLogic value: sequence of CountedElement
    clickCount,         \* heatmapLogic value
    view,               \* the tree returned by the last render
    hovered,            \* the row under the pointer, 0 when none
    events,             \* pointer events delivered to rows so far
    dispatched          \* elementsLogic actions dispatched so far

vars == <<heatmapEnabled, heatmapLoading, countedElements, clickCount,
          view, hovered, events, dispatched>>

logicValues == <<heatmapEnabled, heatmapLoading, countedElements, clickCount>>

----------------------------------------------------------------------------
(* Bounds *)

MaxElements == 2
MaxClickCount == 1
MaxEvents == 3
MaxWide == 100
MaxWideClicks == 11

----------------------------------------------------------------------------
(* Values *)

Undefined == <<>>
Some(v) == <<v>>
Null == "null"
Threw == <<"TypeError", "cannot read property of undefined">>

Elements == {"e1", "e2"}
Texts == {"", "Buy now"}
TagNames == {"", "button"}

Optional(S) == {Undefined} \cup {Some(v) : v \in S}

ActionSteps == Optional([text : Optional(Texts), tag_name : Optional(TagNames)])

CountedElement == [element : Elements, count : {1}, actionStep : ActionSteps]

SeqsUpTo(S, n) == UNION {[1..k -> S] : k \in 0..n}

\* A long list: row i is element i of a fixed rotation, clicked i times.
WideElement(i) ==
    [element |-> IF i % 2 = 1 THEN "e1" ELSE "e2",
     count |-> i,
     actionStep |-> IF i % 3 = 0 THEN Undefined
                    ELSE Some([text |-> IF i % 3 = 1 THEN Some("Buy now") ELSE Undefined,
                               tag_name |-> Some("button")])]

WideList(n) == [i \in 1..n |-> WideElement(i)]

----------------------------------------------------------------------------
(* JavaScript expression semantics used by the component *)

\* String(n) for an integer n, as a JSX number child is rendered.
Digit(d) ==
    CASE d = 0 -> "0" [] d = 1 -> "1" [] d = 2 -> "2" [] d = 3 -> "3"
      [] d = 4 -> "4" [] d = 5 -> "5" [] d = 6 -> "6" [] d = 7 -> "7"
      [] d = 8 -> "8" [] d = 9 -> "9"

RECURSIVE NumberToString(_)
NumberToString(n) ==
    IF n < 0 THEN "-" \o NumberToString(-n)
    ELSE IF n < 10 THEN Digit(n)
    ELSE NumberToString(n \div 10) \o Digit(n % 10)

\* OptChain, as a plain property access
OptChainPlain(obj, field) == IF obj = Undefined THEN Threw ELSE obj[1][field]

\* obj?.field
OptChain(obj, field) == IF obj = Undefined THEN Undefined ELSE obj[1][field]

\* obj.field: a TypeError when obj is undefined
Get(obj, field) == IF obj = Undefined THEN Threw ELSE obj[1][field]

\* the truthiness of an optional string: undefined and '' are falsy
Truthy(v) == v # Undefined /\ v # Threw /\ v[1] # ""

\* -Infinity, below every number the component can compute
NegInfinity == -(2^30)

\* Math.floor(Math.log10(n)) for an integer n >= 0; log10(0) is -Infinity
RECURSIVE FloorLog10(_)
FloorLog10(n) ==
    IF n = 0 THEN NegInfinity
    ELSE IF n < 10 THEN 0
    ELSE 1 + FloorLog10(n \div 10)

\* x + y and x * y, with -Infinity absorbing (y > 0)
Plus(x, y) == IF x = NegInfinity THEN NegInfinity ELSE x + y
Times(x, y) == IF x = NegInfinity THEN NegInfinity ELSE x * y

----------------------------------------------------------------------------
(* The rendered tree *)

NotRendered == [tag |-> "unmounted", children |-> <<>>]
ErrorView == [tag |-> "TypeError", children |-> <<>>]

TextNode(t) == [tag |-> "text", text |-> t]
CodeNode(t) == [tag |-> "code", text |-> t]
EmNode(t) == [tag |-> "em", text |-> t]
ThrowNode == [tag |-> "TypeError", text |-> ""]

Dispatch(a, e) == [action |-> a, arg |-> e]

\* Visible, forgetting the loading flag
VisibleIgnoresLoading(enabled, loading) == enabled

\* heatmapEnabled && !heatmapLoading
Visible(enabled, loading) == enabled /\ ~loading

DateFilterNode ==
    [tag |-> "DateFilter", defaultValue |-> "Last 7 days", updatePath |-> FALSE,
     getPopupContainer |-> "getShadowRootPopupContainer"]

RECURSIVE SumCounts(_)
SumCounts(elements) ==
    IF elements = <<>> THEN 0 ELSE Head(elements).count + SumCounts(Tail(elements))

\* SummaryText, with the clicks summed over the rows instead of read from clickCount
SummaryTextSummed(elements, clicks) ==
    "Found: " \o NumberToString(Len(elements)) \o " elements / "
        \o NumberToString(SumCounts(elements)) \o " clicks!"

\* Found: {countedElements.length} elements / {clickCount} clicks!
SummaryText(elements, clicks) ==
    "Found: " \o NumberToString(Len(elements)) \o " elements / "
        \o NumberToString(clicks) \o " clicks!"

SummaryNode(elements, clicks) == [tag |-> "div", text |-> SummaryText(elements, clicks)]

\* RankLabelWidth, sized by the row's own rank instead of the list length
RankLabelWidthOfRank(elements, index) ==
    Plus(Times(Plus(FloorLog10(index + 1), 1), 12), 6)

\* Math.floor(Math.log10(countedElements.length) + 1) * 12 + 6
RankLabelWidth(elements, index) ==
    Plus(Times(Plus(FloorLog10(Len(elements)), 1), 12), 6)

\* RankLabel, zero-based
RankLabelZeroBased(index) == NumberToString(index) \o "."

\* {index + 1}.
RankLabel(index) == NumberToString(index + 1) \o "."

\* RowContent, with the tag name preferred to the text
RowContentTagFirst(actionStep) ==
    LET text == OptChain(actionStep, "text")
        tag == OptChain(actionStep, "tag_name")
    IN  IF Truthy(tag) THEN CodeNode("<" \o tag[1] \o ">")
        ELSE IF Truthy(text) THEN TextNode(text[1])
        ELSE EmNode("Element")

\* actionStep?.text || (actionStep?.tag_name ? <code>&lt;{actionStep.tag_name}&gt;</code>
\*                                            : <em>Element</em>)
RowContent(actionStep) ==
    LET text == OptChain(actionStep, "text")
        tag == OptChain(actionStep, "tag_name")
    IN  IF text = Threw THEN ThrowNode
        ELSE IF Truthy(text) THEN TextNode(text[1])
        ELSE IF tag = Threw THEN ThrowNode
        ELSE IF Truthy(tag)
             THEN LET name == Get(actionStep, "tag_name")
                  IN  IF name = Threw THEN ThrowNode
                      ELSE CodeNode("<" \o name[1] \o ">")
        ELSE EmNode("Element")

\* OnClick, highlighting the element as well as selecting it
OnClickAlsoHighlights(element) ==
    <<Dispatch("setSelectedElement", element), Dispatch("setHighlightElement", element)>>

\* OnMouseLeave, passing the element instead of null
OnMouseLeaveKeepsElement(element) == <<Dispatch("setHighlightElement", element)>>

OnClick(element) == <<Dispatch("setSelectedElement", element)>>
OnMouseEnter(element) == <<Dispatch("setHighlightElement", element)>>
OnMouseLeave(element) == <<Dispatch("setHighlightElement", Null)>>

\* renderItem({ element, count, actionStep }, index)
RenderItem(item, index, elements) ==
    [onClick |-> OnClick(item.element),
     onMouseEnter |-> OnMouseEnter(item.element),
     onMouseLeave |-> OnMouseLeave(item.element),
     width |-> RankLabelWidth(elements, index),
     label |-> RankLabel(index),
     content |-> RowContent(item.actionStep),
     trailing |-> NumberToString(item.count) \o " clicks"]

\* ListItems, with a placeholder row for an empty list
ListItemsWithPlaceholder(dataSource) ==
    IF dataSource = <<>>
    THEN <<[onClick |-> <<Dispatch("setSelectedElement", Null)>>,
            onMouseEnter |-> <<Dispatch("setHighlightElement", Null)>>,
            onMouseLeave |-> <<Dispatch("setHighlightElement", Null)>>,
            width |-> RankLabelWidth(dataSource, 0),
            label |-> "",
            content |-> EmNode("Element"),
            trailing |-> ""]>>
    ELSE [i \in 1..Len(dataSource) |-> RenderItem(dataSource[i], i - 1, dataSource)]

\* <List dataSource={countedElements} renderItem={...}>: renderItem(item, index)
\* for every item of dataSource, in order, index from 0
ListItems(dataSource) ==
    [i \in 1..Len(dataSource) |-> RenderItem(dataSource[i], i - 1, dataSource)]

ListNode(dataSource) ==
    [tag |-> "List", itemLayout |-> "horizontal", items |-> ListItems(dataSource)]

\* the tree HeatmapStats returns
HeatmapStats(enabled, loading, elements, clicks) ==
    IF Visible(enabled, loading)
    THEN LET list == ListNode(elements)
         IN  IF \E i \in DOMAIN list.items : list.items[i].content = ThrowNode
             THEN ErrorView
             ELSE [tag |-> "div",
                   children |-> <<DateFilterNode, SummaryNode(elements, clicks), list>>]
    ELSE [tag |-> "div", children |-> <<>>]

\* the rows on screen
Rows == IF Len(view.children) = 3 THEN view.children[3].items ELSE <<>>

----------------------------------------------------------------------------
(* The state machine *)

TypeOK ==
    /\ heatmapEnabled \in BOOLEAN
    /\ heatmapLoading \in BOOLEAN
    /\ clickCount \in Nat
    /\ hovered \in 0..Len(countedElements)
    /\ Len(events) <= MaxEvents

InitView ==
    /\ view = NotRendered
    /\ hovered = 0
    /\ events = <<>>
    /\ dispatched = <<>>

\* useValues(heatmapLogic): short lists over every shape of CountedElement
Init ==
    /\ heatmapEnabled \in BOOLEAN
    /\ heatmapLoading \in BOOLEAN
    /\ countedElements \in SeqsUpTo(CountedElement, MaxElements)
    /\ clickCount \in 0..MaxClickCount
    /\ InitView

\* useValues(heatmapLogic): long lists, for the rank column
InitWide ==
    /\ heatmapEnabled \in BOOLEAN
    /\ heatmapLoading \in BOOLEAN
    /\ \E n \in 0..MaxWide : countedElements = WideList(n)
    /\ clickCount \in 0..MaxWideClicks
    /\ InitView

\* Render, clearing the highlight whenever the panel mounts
RenderClearsHighlight ==
    /\ view = NotRendered
    /\ view' = HeatmapStats(heatmapEnabled, heatmapLoading, countedElements, clickCount)
    /\ dispatched' = dispatched \o <<Dispatch("setHighlightElement", Null)>>
    /\ UNCHANGED <<logicValues, hovered, events>>

\* React calls HeatmapStats() and mounts what it returns
Render ==
    /\ view = NotRendered
    /\ view' = HeatmapStats(heatmapEnabled, heatmapLoading, countedElements, clickCount)
    /\ UNCHANGED <<logicValues, hovered, events, dispatched>>

\* the pointer enters row i: onMouseEnter
MouseEnter(i) ==
    /\ i \in DOMAIN Rows
    /\ hovered = 0
    /\ Len(events) < MaxEvents
    /\ hovered' = i
    /\ events' = Append(events, [type |-> "mouseenter", row |-> i])
    /\ dispatched' = dispatched \o Rows[i].onMouseEnter
    /\ UNCHANGED <<logicValues, view>>

\* the pointer leaves row i: onMouseLeave
MouseLeave(i) ==
    /\ i \in DOMAIN Rows
    /\ hovered = i
    /\ Len(events) < MaxEvents
    /\ hovered' = 0
    /\ events' = Append(events, [type |-> "mouseleave", row |-> i])
    /\ dispatched' = dispatched \o Rows[i].onMouseLeave
    /\ UNCHANGED <<logicValues, view>>

\* the row under the pointer is clicked: onClick
Click(i) ==
    /\ i \in DOMAIN Rows
    /\ hovered = i
    /\ Len(events) < MaxEvents
    /\ events' = Append(events, [type |-> "click", row |-> i])
    /\ dispatched' = dispatched \o Rows[i].onClick
    /\ UNCHANGED <<logicValues, view, hovered>>

Next ==
    \/ Render
    \/ \E i \in DOMAIN Rows : MouseEnter(i)
    \/ \E i \in DOMAIN Rows : MouseLeave(i)
    \/ \E i \in DOMAIN Rows : Click(i)

Spec == Init /\ [][Next]_vars

NextWide == Render

SpecWide == InitWide /\ [][NextWide]_vars

----------------------------------------------------------------------------
(* Properties *)

Rendered == view # NotRendered
Shown == heatmapEnabled /\ ~heatmapLoading

HasFilter == \E k \in DOMAIN view.children : view.children[k].tag = "DateFilter"
HasSummary ==
    \E k \in DOMAIN view.children : "text" \in DOMAIN view.children[k]
HasList == \E k \in DOMAIN view.children : view.children[k].tag = "List"

\* C1: once rendered, the date filter, the summary line and the list are all
\* on screen if and only if heatmapEnabled is true and heatmapLoading is
\* false; in every other state the output is the empty container.
C1_ShownIffEnabledAndLoaded ==
    Rendered =>
        /\ (HasFilter /\ HasSummary /\ HasList) <=> Shown
        /\ ~Shown => /\ view = [tag |-> "div", children |-> <<>>]
                     /\ ~HasFilter /\ ~HasSummary /\ ~HasList
                     /\ Rows = <<>>

C1_Witness ==
    /\ Rendered
    /\ heatmapEnabled /\ heatmapLoading
    /\ Len(countedElements) = MaxElements
    /\ view.children = <<>>

\* C2: in every visible state the summary line reads exactly
\* 'Found: N elements / M clicks!', N the length of countedElements and M
\* clickCount, whether or not M is the sum of the rows' counts.
C2_SummaryLine ==
    (Rendered /\ Shown) =>
        /\ Len(view.children) = 3
        /\ view.children[2].text =
               "Found: " \o ToString(Len(countedElements)) \o " elements / "
                   \o ToString(clickCount) \o " clicks!"

C2_Witness ==
    /\ Rendered /\ Shown
    /\ Len(countedElements) >= 10
    /\ clickCount >= 10
    /\ clickCount # SumCounts(countedElements)
    /\ view.children[2].text = "Found: 12 elements / 10 clicks!"

\* C3: in every visible state the list has exactly one row per element of
\* countedElements, in the same order, and the row at 1-based position i
\* shows the rank label i and belongs to the i-th element.
C3_OneRowPerElementInOrder ==
    (Rendered /\ Shown) =>
        /\ Len(Rows) = Len(countedElements)
        /\ \A i \in 1..Len(countedElements) :
            /\ Rows[i].label = ToString(i) \o "."
            /\ Rows[i].trailing = ToString(countedElements[i].count) \o " clicks"
            /\ Rows[i].onClick = <<Dispatch("setSelectedElement", countedElements[i].element)>>
            /\ Rows[i].onMouseEnter = <<Dispatch("setHighlightElement", countedElements[i].element)>>

C3_Witness ==
    /\ Rendered /\ Shown
    /\ Len(Rows) = 12
    /\ Rows[12].label = "12."
    /\ Rows[12].trailing = "12 clicks"
    /\ Rows[11].trailing = "11 clicks"

Present(v) == v # Undefined
NonEmpty(v) == v # Undefined /\ v # <<"">>

TextOf(item) == IF item.actionStep = Undefined THEN Undefined ELSE item.actionStep[1].text
TagOf(item) == IF item.actionStep = Undefined THEN Undefined ELSE item.actionStep[1].tag_name

\* C4 as stated: the row content is the action-step text if the text is
\* present; otherwise the code-styled '<tagname>' if a tag name is present;
\* otherwise the literal 'Element'.
C4_ContentByPresence ==
    (Rendered /\ Shown) =>
        \A i \in 1..Len(countedElements) :
            LET text == TextOf(countedElements[i])
                tag == TagOf(countedElements[i])
            IN  Rows[i].content =
                    IF Present(text) THEN [tag |-> "text", text |-> text[1]]
                    ELSE IF Present(tag) THEN [tag |-> "code", text |-> "<" \o tag[1] \o ">"]
                    ELSE [tag |-> "em", text |-> "Element"]

\* C4: the row content is the action-step text if the text is present and
\* not the empty string; otherwise the code-styled '<tagname>' if a tag name
\* is present and not the empty string; otherwise the literal 'Element'.
C4_ContentByNonEmpty ==
    (Rendered /\ Shown) =>
        \A i \in 1..Len(countedElements) :
            LET text == TextOf(countedElements[i])
                tag == TagOf(countedElements[i])
            IN  Rows[i].content =
                    IF NonEmpty(text) THEN [tag |-> "text", text |-> text[1]]
                    ELSE IF NonEmpty(tag) THEN [tag |-> "code", text |-> "<" \o tag[1] \o ">"]
                    ELSE [tag |-> "em", text |-> "Element"]

C4_Witness ==
    /\ Rendered /\ Shown
    /\ Len(countedElements) = 2
    /\ countedElements[1].actionStep = Some([text |-> Some(""), tag_name |-> Some("button")])
    /\ countedElements[2].actionStep = Some([text |-> Some("Buy now"), tag_name |-> Some("button")])
    /\ Rows[1].content = [tag |-> "code", text |-> "<button>"]
    /\ Rows[2].content = [tag |-> "text", text |-> "Buy now"]

Count(seq, P(_)) == Cardinality({k \in DOMAIN seq : P(seq[k])})
IsClick(e) == e.type = "click"
IsSelect(d) == d.action = "setSelectedElement"
IsHighlight(d) == d.action = "setHighlightElement"

\* C5: each click on a row dispatches setSelectedElement exactly once, with
\* the element of that same row (never null), and no setHighlightElement.
C5_ClickSelectsOwnElementOnce ==
    /\ Count(dispatched, IsSelect) = Count(events, IsClick)
    /\ Len(dispatched) = Len(events)
    /\ \A k \in DOMAIN events :
        events[k].type = "click" =>
            /\ k \in DOMAIN dispatched
            /\ dispatched[k].action = "setSelectedElement"
            /\ dispatched[k].arg = countedElements[events[k].row].element
            /\ dispatched[k].arg # Null

C5_Witness ==
    /\ Len(countedElements) = 2
    /\ countedElements[1].element # countedElements[2].element
    /\ Len(events) = 2
    /\ events[2] = [type |-> "click", row |-> 2]
    /\ dispatched[2] = Dispatch("setSelectedElement", countedElements[2].element)

Highlights == SelectSeq(dispatched, IsHighlight)

\* C6: each mouse-enter on a row dispatches setHighlightElement with that
\* row's element and each mouse-leave dispatches setHighlightElement(null),
\* so that after an enter followed by the matching leave the last highlight
\* value dispatched is null.
C6_HoverHighlightsAndClears ==
    /\ \A k \in DOMAIN events :
        /\ events[k].type = "mouseenter" =>
            /\ k \in DOMAIN dispatched
            /\ dispatched[k] = Dispatch("setHighlightElement", countedElements[events[k].row].element)
        /\ events[k].type = "mouseleave" =>
            /\ k \in DOMAIN dispatched
            /\ dispatched[k] = Dispatch("setHighlightElement", Null)
    /\ (events # <<>> /\ hovered = 0) =>
            /\ Highlights # <<>>
            /\ Highlights[Len(Highlights)].arg = Null
    /\ hovered # 0 =>
            /\ Highlights # <<>>
            /\ Highlights[Len(Highlights)].arg = countedElements[hovered].element

C6_Witness ==
    /\ Len(events) = 3
    /\ events[1] = [type |-> "mouseenter", row |-> 2]
    /\ events[2] = [type |-> "click", row |-> 2]
    /\ events[3] = [type |-> "mouseleave", row |-> 2]
    /\ hovered = 0
    /\ dispatched[3] = Dispatch("setHighlightElement", Null)

\* C7: rendering and every pointer-event handler leave countedElements,
\* clickCount, heatmapEnabled and heatmapLoading unchanged; the only effects
\* are dispatches of setSelectedElement and setHighlightElement, each made by
\* a pointer event; rendering alone dispatches nothing.
C7_ReadAndDispatchOnly ==
    [][/\ logicValues' = logicValues
       /\ dispatched' # dispatched =>
            /\ Len(events') = Len(events) + 1
            /\ view' = view
            /\ \E d \in [action : {"setSelectedElement", "setHighlightElement"},
                         arg : Elements \cup {Null}] : dispatched' = Append(dispatched, d)
       /\ view' # view => dispatched' = dispatched]_vars

C7_Witness ==
    /\ Rendered /\ Shown
    /\ Len(events) = 2
    /\ Len(dispatched) = 2
    /\ dispatched[1].action = "setHighlightElement"
    /\ dispatched[2].action = "setSelectedElement"

\* C8: in every visible state with N >= 1 elements, every row's rank-label
\* width is floor(log10(N)+1)*12+6, i.e. 12 times the number of decimal
\* digits of N plus 6: the same for all rows, whatever the row's index.
C8_RankLabelWidth ==
    (Rendered /\ Shown /\ Len(countedElements) >= 1) =>
        LET N == Len(countedElements)
            digits == Len(ToString(N))
        IN  /\ 10^(digits - 1) <= N /\ N < 10^digits
            /\ \A i \in DOMAIN Rows : Rows[i].width = digits * 12 + 6
            /\ \A i, j \in DOMAIN Rows : Rows[i].width = Rows[j].width

C8_Witness ==
    /\ Rendered /\ Shown
    /\ Len(countedElements) = 100
    /\ Rows[1].width = 42
    /\ Rows[100].width = 42

Fallbacks ==
    {[tag |-> "text", text |-> t] : t \in Texts \ {""}}
        \cup {[tag |-> "code", text |-> "<" \o t \o ">"] : t \in TagNames \ {""}}
        \cup {[tag |-> "em", text |-> "Element"]}

\* C9: rendering never raises an error for a missing optional field: with
\* actionStep undefined, or lacking text, tag_name or both, rendering
\* completes and the row shows one of the documented fallbacks.
C9_MissingFieldsNeverThrow ==
    Rendered =>
        /\ view.tag = "div"
        /\ Shown => /\ Len(Rows) = Len(countedElements)
                    /\ \A i \in DOMAIN Rows : Rows[i].content \in Fallbacks

C9_Witness ==
    /\ Rendered /\ Shown
    /\ Len(countedElements) = 2
    /\ countedElements[1].actionStep = Undefined
    /\ countedElements[2].actionStep = Some([text |-> Undefined, tag_name |-> Undefined])
    /\ Rows[1].content = [tag |-> "em", text |-> "Element"]
    /\ Rows[2].content = [tag |-> "em", text |-> "Element"]

\* C10: in a visible state with countedElements empty no row is rendered,
\* log10(0) is never computed (no width is -Infinity), the summary reads
\* 'Found: 0 elements / M clicks!' and no dispatch is reachable; no dispatch
\* is reachable in a hidden state either.
C10_EmptyOrHiddenIsInert ==
    /\ \A i \in DOMAIN Rows : Rows[i].width # NegInfinity
    /\ (Rendered /\ Shown /\ countedElements = <<>>) =>
            /\ Rows = <<>>
            /\ view.children[2].text =
                   "Found: 0 elements / " \o ToString(clickCount) \o " clicks!"
    /\ (~Shown \/ countedElements = <<>>) =>
            /\ events = <<>>
            /\ dispatched = <<>>
            /\ hovered = 0

C10_Witness ==
    /\ Rendered /\ Shown
    /\ countedElements = <<>>
    /\ clickCount = 1
    /\ view.children[2].text = "Found: 0 elements / 1 clicks!"

====
